---------------------------- MODULE Spec2Model ----------------------------
(***************************************************************************)
(* A model of the Mares Icon HD family dive-log parser                     *)
(* (src/src/mares_iconhd_parser.c).  The parser object, the byte buffer it *)
(* is given and the results of its four operations are the state; the      *)
(* operations are set_data, get_datetime, get_field and samples_foreach.   *)
(* Bytes are read from the buffer exactly where the code reads them.       *)
(***************************************************************************)
EXTENDS Integers, Sequences, FiniteSets, TLC

(***************************************************************************)
(* Program constants (the #defines of the source).                         *)
(***************************************************************************)
SMART == 16
SMARTAPNEA == 65552
ICONHD == 20
ICONHDNET == 21
GENIUS == 28
QUADAIR == 35
SMARTAIR == 36

NGASMIXES_ICONHD == 3
NGASMIXES_GENIUS == 5
NGASMIXES == NGASMIXES_GENIUS
NTANKS_ICONHD == NGASMIXES_ICONHD
NTANKS_GENIUS == NGASMIXES_GENIUS
NTANKS == NGASMIXES

ICONHD_AIR == 0
ICONHD_GAUGE == 1
ICONHD_NITROX == 2
ICONHD_FREEDIVE == 3

GENIUS_AIR == 0
GENIUS_NITROX_SINGLE == 1
GENIUS_NITROX_MULTI == 2
GENIUS_TRIMIX == 3
GENIUS_GAUGE == 4
GENIUS_FREEDIVE == 5

\* Record types (big-endian ASCII tags) and sizes.
DSTR_TYPE == 1146311762
DSTR_SIZE == 58
TISS_TYPE == 1414091603
TISS_SIZE == 138
DPRS_TYPE == 1146114643
DPRS_SIZE == 34
AIRS_TYPE == 1095324243
AIRS_SIZE == 16
DEND_TYPE == 1145392708
DEND_SIZE == 162

GASMIX_OFF == 0

WATER_SALT == 0
WATER_FRESH == 1
WATER_EN13319 == 2

ALARM_FAST_ASCENT == 2
ALARM_UNCONTROLLED_ASCENT == 3
ALARM_MISSED_DECO == 7
ALARM_DIVE_VIOLATION_DECO == 8

Models == {SMART, SMARTAPNEA, ICONHD, ICONHDNET, GENIUS, QUADAIR, SMARTAIR}

(***************************************************************************)
(* Bit operations on naturals (the C operators &, ^, >>, <<).              *)
(***************************************************************************)
RECURSIVE And(_, _)
And(a, b) ==
    IF a = 0 \/ b = 0 THEN 0
    ELSE (a % 2) * (b % 2) + 2 * And(a \div 2, b \div 2)

RECURSIVE Xor(_, _)
Xor(a, b) ==
    IF a = 0 THEN b
    ELSE IF b = 0 THEN a
    ELSE ((a + b) % 2) + 2 * Xor(a \div 2, b \div 2)

RECURSIVE Pow2(_)
Pow2(n) == IF n = 0 THEN 1 ELSE 2 * Pow2(n - 1)

Shr(a, n) == a \div Pow2(n)

(***************************************************************************)
(* The buffer.  A buffer is [len, b]: len bytes, b[i] at offset i below     *)
(* len.  A memory view adds oob, the                                       *)
(* byte that a read past the end of the allocation happens to return       *)
(* (undefined behaviour in C: the operations choose it nondeterministi-    *)
(* cally).                                                                 *)
(***************************************************************************)
View(d, oob) == [len |-> d.len, b |-> d.b, oob |-> oob]

u8(mv, i) ==
    IF i >= mv.len THEN mv.oob
    ELSE mv.b[i]

array_uint16_le(mv, i) == u8(mv, i) + 256 * u8(mv, i + 1)

\* A 32-bit unsigned int is kept as <<high half, low half>>, each below 65536,
\* so that the arithmetic wraps at 2^32 as it does in C.
array_uint32_le(mv, i) == <<array_uint16_le(mv, i + 2), array_uint16_le(mv, i)>>

array_uint32_be(mv, i) ==
    <<256 * u8(mv, i) + u8(mv, i + 1), 256 * u8(mv, i + 2) + u8(mv, i + 3)>>

\* The unsigned int of a natural below 2^31, and back.
U32(n) == <<n \div 65536, n % 65536>>

Nat32(w) == w[1] * 65536 + w[2]

U32Lt(a, b) == a[1] < b[1] \/ (a[1] = b[1] /\ a[2] < b[2])

\* a + b and a * k (k below 2^15), modulo 2^32.
U32Add(a, b) == <<(a[1] + b[1] + ((a[2] + b[2]) \div 65536)) % 65536, (a[2] + b[2]) % 65536>>

U32Mul(a, k) == <<(a[1] * k + ((a[2] * k) \div 65536)) % 65536, (a[2] * k) % 65536>>

\* (a >> shift) & mask, for shift up to 31 and a mask below 65536.
U32Bits(a, shift, mask) ==
    IF shift >= 16 THEN And(Shr(a[1], shift - 16), mask)
    ELSE And(Shr(a[2], shift) + (a[1] % Pow2(shift)) * Pow2(16 - shift), mask)

\* (signed short) x
SignedShort(x) == IF x >= 32768 THEN x - 65536 ELSE x

(***************************************************************************)
(* CRC-16/CCITT (polynomial 0x1021, most significant bit first, no final   *)
(* xor), the checksum primitive the record validator calls.                *)
(***************************************************************************)
RECURSIVE CrcBits(_, _)
CrcBits(crc, n) ==
    IF n = 0 THEN crc
    ELSE CrcBits(IF crc >= 32768 THEN Xor((crc * 2) % 65536, 4129)
                 ELSE crc * 2, n - 1)

CrcTable == [i \in 0..255 |-> CrcBits(i * 256, 8)]

\* The checksum after one more byte.
CrcByte(crc, byte) == Xor((crc % 256) * 256, CrcTable[Xor(crc \div 256, byte)])

\* The bytes are taken in order.  The range is folded in halves, the checksum
\* of the first half being bound before the second half is entered, so that
\* the evaluation stays shallow.
RECURSIVE checksum_crc16_ccitt(_, _, _, _)
checksum_crc16_ccitt(mv, off, size, init) ==
    IF size = 0 THEN init
    ELSE IF size = 1 THEN CrcByte(init, u8(mv, off))
    ELSE CHOOSE crc \in
            { checksum_crc16_ccitt(mv, off + (size \div 2), size - (size \div 2), first) :
                first \in { checksum_crc16_ccitt(mv, off, size \div 2, init) } } : TRUE

\* The checksum is not compared.
IsvalidTagsOnly(mv, off, size, type) ==
    /\ size >= 10
    /\ array_uint32_be(mv, off) = U32(type)
    /\ array_uint32_be(mv, off + size - 4) = U32(type)

mares_genius_isvalid(mv, off, size, type) ==
    IF size < 10 THEN FALSE
    ELSE IF array_uint32_be(mv, off) # U32(type)
            \/ array_uint32_be(mv, off + size - 4) # U32(type)
         THEN FALSE
    ELSE array_uint16_le(mv, off + size - 6) = checksum_crc16_ccitt(mv, off + 4, size - 10, 0)

(***************************************************************************)
(* The parser object.                                                      *)
(***************************************************************************)
IsSmartFamily(m) == m = SMART \/ m = SMARTAPNEA \/ m = SMARTAIR

IsTankModel(m) == m = ICONHDNET \/ m = QUADAIR \/ m = SMARTAIR

NoGasmix == [oxygen |-> 0, helium |-> 0]

NoTank == [volume |-> 0, workpressure |-> 0, beginpressure |-> 0, endpressure |-> 0]

\* The values mares_iconhd_parser_create and mares_iconhd_parser_set_data store.
DefaultFields(m) ==
    [cached |-> 0,
     mode |-> IF m = GENIUS THEN GENIUS_AIR ELSE ICONHD_AIR,
     nsamples |-> 0, samplesize |-> 0, headersize |-> 0, settings |-> U32(0),
     interval |-> 0, samplerate |-> 0, ntanks |-> 0, ngasmixes |-> 0,
     gasmix |-> [i \in 0..(NGASMIXES - 1) |-> NoGasmix],
     tank |-> [i \in 0..(NTANKS - 1) |-> NoTank]]


(***************************************************************************)
(* mares_iconhd_cache: the header cache of every model but the Genius.     *)
(* f is the parser's cached fields, size the parser's base.size.  The      *)
(* result is the status, the fields and base.size after the call.          *)
(***************************************************************************)
\* The preliminary header size, used only to find the type and the sample count.
IconhdPrelimHeader(m) ==
    IF m = ICONHDNET THEN 128
    ELSE IF m = QUADAIR THEN 132
    ELSE IF m = SMART \/ m = SMARTAIR THEN 4
    ELSE IF m = SMARTAPNEA THEN 6
    ELSE 92

\* The Smart Air is laid out as the Smart.
IconhdLayoutSmartAir(m, mode) ==
    IF m = ICONHDNET THEN <<128, 12>>
    ELSE IF m = QUADAIR THEN <<132, 12>>
    ELSE IF m = SMART \/ m = SMARTAIR THEN
        (IF mode = ICONHD_FREEDIVE THEN <<46, 6>> ELSE <<92, 8>>)
    ELSE IF m = SMARTAPNEA THEN <<80, 14>>
    ELSE <<92, 8>>

\* The header size and the sample size, as <<headersize, samplesize>>.
IconhdLayout(m, mode) ==
    IF m = ICONHDNET THEN <<128, 12>>
    ELSE IF m = QUADAIR \/ m = SMARTAIR THEN <<132, 12>>
    ELSE IF m = SMART THEN
        (IF mode = ICONHD_FREEDIVE THEN <<46, 6>> ELSE <<92, 8>>)
    ELSE IF m = SMARTAPNEA THEN <<80, 14>>
    ELSE <<92, 8>>

\* The pointer to the header fields, as an offset into the buffer.
IconhdHeaderPtr(m, extent, headersize) ==
    IF IsSmartFamily(m) THEN extent - headersize ELSE extent - headersize + 4

\* The dive settings.  The code tests the parser's cached mode, not the mode
\* just read from the buffer.
IconhdSettings(m, f, mv, p) ==
    IF m = SMARTAPNEA THEN U32(array_uint16_le(mv, p + 28))
    ELSE IF f.mode = ICONHD_FREEDIVE THEN U32(array_uint16_le(mv, p + 8))
    ELSE U32(array_uint16_le(mv, p + 12))

Intervals == <<1, 5, 10, 20>>

IconhdInterval(m, settings) ==
    IF m = SMARTAPNEA THEN 1 ELSE Intervals[U32Bits(settings, 10, 3) + 1]

IconhdSamplerate(m, settings) ==
    IF m = SMARTAPNEA THEN Pow2(U32Bits(settings, 9, 3)) ELSE 1

\* The total number of bytes of the dive, in unsigned int arithmetic.
IconhdNbytes(m, mv, p, headersize, samplesize, nsamples, samplerate) ==
    LET base == 4 + headersize + nsamples * samplesize
    IN  IF IsTankModel(m) THEN U32(base + (nsamples \div 4) * 8)
        ELSE IF m = SMARTAPNEA
             THEN U32Add(U32(base), U32Mul(U32Mul(array_uint32_le(mv, p + 36), samplerate), 2))
        ELSE U32(base)

\* The stored and the calculated size must be equal.
IconhdSizeOk(length, nbytes) == length = nbytes

\* The number of active gas mixes: the scan stops at the first disabled one.
RECURSIVE IconhdScanGasmixes(_, _, _)
IconhdScanGasmixes(mv, p, n) ==
    IF n < NGASMIXES_ICONHD /\ And(u8(mv, p + 16 + n * 4 + 1), 128) = 0
    THEN IconhdScanGasmixes(mv, p, n + 1)
    ELSE n

IconhdNgasmixes(mv, p, mode) ==
    IF mode = ICONHD_GAUGE \/ mode = ICONHD_FREEDIVE THEN 0
    ELSE IF mode = ICONHD_AIR THEN 1
    ELSE IconhdScanGasmixes(mv, p, 0)

IconhdGasmix(mv, p, mode, i) ==
    IF mode = ICONHD_AIR THEN [oxygen |-> 21, helium |-> 0]
    ELSE [oxygen |-> u8(mv, p + 16 + i * 4), helium |-> 0]

IconhdTankAt(mv, p, tankoffset, n) ==
    [volume |-> array_uint16_le(mv, p + tankoffset + 12 + n * 8),
     workpressure |-> array_uint16_le(mv, p + tankoffset + 12 + n * 8 + 2),
     beginpressure |-> array_uint16_le(mv, p + tankoffset + n * 4),
     endpressure |-> array_uint16_le(mv, p + tankoffset + n * 4 + 2)]

\* No transmitter: no begin pressure, and no end pressure or the full-scale reading.
TankInactive(beginpressure, endpressure) ==
    beginpressure = 0 /\ (endpressure = 0 \/ endpressure = 36000)

RECURSIVE IconhdScanTanks(_, _, _, _)
IconhdScanTanks(mv, p, tankoffset, n) ==
    IF n < NTANKS_ICONHD
       /\ ~TankInactive(IconhdTankAt(mv, p, tankoffset, n).beginpressure,
                        IconhdTankAt(mv, p, tankoffset, n).endpressure)
    THEN IconhdScanTanks(mv, p, tankoffset, n + 1)
    ELSE n

IconhdTankOffset(m) == IF m = ICONHDNET THEN 88 ELSE 92

IconhdNtanks(m, mv, p) ==
    IF IsTankModel(m) THEN IconhdScanTanks(mv, p, IconhdTankOffset(m), 0) ELSE 0

\* The sample count is stored before the header is found to be bad.
FailedAfterWrite(f, size) ==
    [rc |-> "DATAFORMAT", f |-> [f EXCEPT !.nsamples = 1], size |-> size]

\* Every failure of the header caches returns before anything is stored.
Failed(f, size) == [rc |-> "DATAFORMAT", f |-> f, size |-> size]

mares_iconhd_cache(m, f, mv, size) ==
    LET header == IconhdPrelimHeader(m)
    IN
    IF size < 4 THEN Failed(f, size)
    ELSE
    LET length32 == array_uint32_le(mv, 0)
    IN
    IF U32Lt(length32, U32(4 + header)) \/ U32Lt(U32(size), length32) THEN Failed(f, size)
    ELSE
    LET length == Nat32(length32)
        type     == IF IsSmartFamily(m) THEN array_uint16_le(mv, length - header + 2)
                    ELSE array_uint16_le(mv, length - header)
        nsamples == IF IsSmartFamily(m) THEN array_uint16_le(mv, length - header)
                    ELSE array_uint16_le(mv, length - header + 2)
        mode == And(type, 3)
        headersize == IconhdLayout(m, mode)[1]
        samplesize == IconhdLayout(m, mode)[2]
    IN
    IF length < 4 + headersize THEN Failed(f, size)
    ELSE
    LET p == IconhdHeaderPtr(m, length, headersize)
        settings == IconhdSettings(m, f, mv, p)
        interval == IconhdInterval(m, settings)
        samplerate == IconhdSamplerate(m, settings)
        nbytes == IconhdNbytes(m, mv, p, headersize, samplesize, nsamples, samplerate)
    IN
    IF ~IconhdSizeOk(length32, nbytes) THEN Failed(f, size)
    ELSE
    LET ngasmixes == IconhdNgasmixes(mv, p, mode)
        ntanks == IconhdNtanks(m, mv, p)
    IN
    [rc |-> "SUCCESS",
     size |-> length,
     f |-> [cached |-> 1, mode |-> mode, nsamples |-> nsamples,
            samplesize |-> samplesize, headersize |-> headersize,
            settings |-> settings, interval |-> interval,
            samplerate |-> samplerate, ntanks |-> ntanks, ngasmixes |-> ngasmixes,
            gasmix |-> [i \in 0..(NGASMIXES - 1) |->
                          IF i < ngasmixes THEN IconhdGasmix(mv, p, mode, i)
                          ELSE f.gasmix[i]],
            tank |-> [i \in 0..(NTANKS - 1) |->
                          IF i < ntanks THEN IconhdTankAt(mv, p, IconhdTankOffset(m), i)
                          ELSE f.tank[i]]]]

(***************************************************************************)
(* mares_genius_cache: the header cache of the Genius.                     *)
(***************************************************************************)
GeniusHeaderSize == 184

GeniusNbytes(nsamples) ==
    GeniusHeaderSize + 4 + DSTR_SIZE + TISS_SIZE + nsamples * DPRS_SIZE
        + (nsamples \div 4) * AIRS_SIZE + DEND_SIZE

\* The calculated size must fit in the buffer.
GeniusSizeOk(nbytes, size) == ~(nbytes > size)

GeniusParams(mv, i) == array_uint32_le(mv, 84 + i * 20)

GeniusGasmixAt(mv, i) ==
    [oxygen |-> U32Bits(GeniusParams(mv, i), 0, 127),
     helium |-> U32Bits(GeniusParams(mv, i), 14, 127)]

GeniusGasState(mv, i) == U32Bits(GeniusParams(mv, i), 21, 3)

GeniusTankAt(mv, i) ==
    [volume |-> array_uint16_le(mv, 84 + i * 20 + 8),
     workpressure |-> array_uint16_le(mv, 84 + i * 20 + 10),
     beginpressure |-> array_uint16_le(mv, 84 + i * 20 + 4),
     endpressure |-> array_uint16_le(mv, 84 + i * 20 + 6)]

\* Every slot that is not off counts, whatever came before it.
GeniusGasCountsAnyActive(mv, i, ngasmixes) == GeniusGasState(mv, i) # GASMIX_OFF

\* A slot counts as a gas mix only if it is not off and every earlier slot counted.
GeniusGasCounts(mv, i, ngasmixes) == GeniusGasState(mv, i) # GASMIX_OFF /\ ngasmixes = i

GeniusTankCounts(mv, i, ntanks) ==
    /\ (GeniusTankAt(mv, i).beginpressure # 0
        \/ (GeniusTankAt(mv, i).endpressure # 0 /\ GeniusTankAt(mv, i).endpressure # 36000))
    /\ ntanks = i

\* The loop over the slots: <<ngasmixes, ntanks>> after slots i..4.
RECURSIVE GeniusScan(_, _, _, _)
GeniusScan(mv, i, ngasmixes, ntanks) ==
    IF i >= NGASMIXES_GENIUS THEN <<ngasmixes, ntanks>>
    ELSE GeniusScan(mv, i + 1,
            IF GeniusGasCounts(mv, i, ngasmixes) THEN ngasmixes + 1 ELSE ngasmixes,
            IF GeniusTankCounts(mv, i, ntanks) THEN ntanks + 1 ELSE ntanks)

mares_genius_cache(m, f, mv, size) ==
    IF size < 4 THEN Failed(f, size)
    ELSE IF array_uint16_le(mv, 0) # 1 \/ u8(mv, 2) # 0 \/ u8(mv, 3) # 0 THEN Failed(f, size)
    ELSE IF GeniusHeaderSize > size THEN Failed(f, size)
    ELSE
    LET nsamples == array_uint16_le(mv, 32)
        settings == array_uint32_le(mv, 12)
        mode == U32Bits(settings, 0, 15)
        nbytes == GeniusNbytes(nsamples)
    IN
    IF ~GeniusSizeOk(nbytes, size) THEN Failed(f, size)
    ELSE
    LET counts == GeniusScan(mv, 0, 0, 0)
        ngasmixes == counts[1]
        ntanks == counts[2]
    IN
    [rc |-> "SUCCESS",
     size |-> size,
     f |-> [cached |-> 1, mode |-> mode, nsamples |-> nsamples,
            samplesize |-> DPRS_SIZE, headersize |-> GeniusHeaderSize,
            settings |-> settings, interval |-> 5, samplerate |-> 1,
            ntanks |-> ntanks, ngasmixes |-> ngasmixes,
            gasmix |-> [i \in 0..(NGASMIXES - 1) |->
                          IF i < ngasmixes THEN GeniusGasmixAt(mv, i) ELSE f.gasmix[i]],
            tank |-> [i \in 0..(NTANKS - 1) |->
                          IF i < ntanks THEN GeniusTankAt(mv, i) ELSE f.tank[i]]]]

(***************************************************************************)
(* mares_iconhd_parser_cache: validate once, then serve the cached fields. *)
(* validated tells whether this call ran a validation pass.                *)
(***************************************************************************)
\* The cached flag is never looked at.
CacheNeverHit(f) == FALSE

CacheHit(f) == f.cached # 0

mares_iconhd_parser_cache(m, f, mv, size) ==
    IF CacheHit(f) THEN [rc |-> "SUCCESS", f |-> f, size |-> size, validated |-> FALSE]
    ELSE LET r == IF m = GENIUS THEN mares_genius_cache(m, f, mv, size)
                  ELSE mares_iconhd_cache(m, f, mv, size)
         IN  [rc |-> r.rc, f |-> r.f, size |-> r.size, validated |-> TRUE]

(***************************************************************************)
(* Output values.  Every output is a record with a kind; a double is kept  *)
(* as the integer the code reads and the constant it divides it by.        *)
(***************************************************************************)
NoValue == [kind |-> "none"]

UInt(v) == [kind |-> "uint", v |-> v]

Double(num, den) == [kind |-> "double", num |-> num, den |-> den]

\* The pointer to the header data of get_datetime and get_field.
HeaderPtr(m, f, size) ==
    IF m = GENIUS THEN 0 ELSE IconhdHeaderPtr(m, size, f.headersize)

(***************************************************************************)
(* mares_iconhd_parser_get_datetime                                        *)
(***************************************************************************)
DatetimeOffset(m, f) ==
    IF m = GENIUS THEN 8
    ELSE IF m = SMARTAPNEA THEN 64
    ELSE IF f.mode = ICONHD_FREEDIVE THEN 32
    ELSE 2

Datetime(m, f, mv, size) ==
    LET p == HeaderPtr(m, f, size) + DatetimeOffset(m, f)
    IN  IF m = GENIUS
        THEN LET timestamp == array_uint32_le(mv, p)
             IN  [kind |-> "datetime",
                  hour |-> U32Bits(timestamp, 0, 31),
                  minute |-> U32Bits(timestamp, 5, 63),
                  second |-> 0,
                  day |-> U32Bits(timestamp, 11, 31),
                  month |-> U32Bits(timestamp, 16, 15),
                  year |-> U32Bits(timestamp, 20, 4095),
                  timezone |-> "NONE"]
        ELSE [kind |-> "datetime",
              hour |-> array_uint16_le(mv, p),
              minute |-> array_uint16_le(mv, p + 2),
              second |-> 0,
              day |-> array_uint16_le(mv, p + 4),
              month |-> array_uint16_le(mv, p + 6) + 1,
              year |-> array_uint16_le(mv, p + 8) + 1900,
              timezone |-> "NONE"]

\* The result of an operation: status, output value, sample events, and the
\* parser's fields and base.size after it.
Result(rc, value, events, c) ==
    [rc |-> rc, value |-> value, events |-> events, f |-> c.f, size |-> c.size,
     validated |-> c.validated]

mares_iconhd_parser_get_datetime(m, f, mv, size) ==
    LET c == mares_iconhd_parser_cache(m, f, mv, size)
    IN  IF c.rc # "SUCCESS" THEN Result(c.rc, NoValue, <<>>, c)
        ELSE Result("SUCCESS", Datetime(m, c.f, mv, c.size), <<>>, c)

(***************************************************************************)
(* mares_iconhd_parser_get_field                                           *)
(***************************************************************************)
FieldTypes ==
    {"DIVETIME", "MAXDEPTH", "GASMIX_COUNT", "GASMIX", "TANK_COUNT", "TANK",
     "ATMOSPHERIC", "SALINITY", "TEMPERATURE_MINIMUM", "TEMPERATURE_MAXIMUM",
     "DIVEMODE", "AVGDEPTH"}

\* The dive time of a freedive session: the sum of the dive times of its records.
RECURSIVE FreediveDivetime(_, _, _, _)
FreediveDivetime(f, mv, i, offset) ==
    IF i >= f.nsamples THEN 0
    ELSE array_uint16_le(mv, offset + 2) + FreediveDivetime(f, mv, i + 1, offset + f.samplesize)

\* A dive time taken from the header for every standard variant.
FieldDivetimeHeader(m, f, mv, p) ==
    IF m = GENIUS THEN f.nsamples * f.interval ELSE array_uint16_le(mv, p + 36)

FieldDivetime(m, f, mv, p) ==
    IF m = GENIUS THEN f.nsamples * f.interval
    ELSE IF m = SMARTAPNEA THEN array_uint16_le(mv, p + 36)
    ELSE IF f.mode = ICONHD_FREEDIVE THEN FreediveDivetime(f, mv, 0, 4)
    ELSE f.nsamples * f.interval

\* A field read at one of four offsets, by model and mode.
ByVariant(m, f, genius, apnea, freedive, other) ==
    IF m = GENIUS THEN genius
    ELSE IF m = SMARTAPNEA THEN apnea
    ELSE IF f.mode = ICONHD_FREEDIVE THEN freedive
    ELSE other

FieldMetric(m, f, mv, p) ==
    IF m = GENIUS THEN u8(mv, p + 52) # 0 ELSE U32Bits(f.settings, 8, 1) # 0

\* parser->gasmix[flags] and parser->tank[flags]: the index is not checked, and
\* an index past the array reads whatever follows it.
GasmixRead(f, mv, flags) ==
    IF flags < NGASMIXES THEN f.gasmix[flags]
    ELSE [oxygen |-> mv.oob, helium |-> mv.oob]

TankRead(f, mv, flags) ==
    IF flags < NTANKS THEN f.tank[flags]
    ELSE [volume |-> mv.oob, workpressure |-> mv.oob,
          beginpressure |-> mv.oob, endpressure |-> mv.oob]

FieldTank(m, f, mv, p, flags) ==
    LET t == TankRead(f, mv, flags)
        gasmix == IF flags < f.ngasmixes THEN UInt(flags) ELSE [kind |-> "GASMIX_UNKNOWN"]
    IN  IF FieldMetric(m, f, mv, p)
        THEN [rc |-> "SUCCESS",
              value |-> [kind |-> "tank", type |-> "METRIC",
                         volume |-> t.volume, workpressure |-> t.workpressure,
                         beginpressure |-> Double(t.beginpressure, 100),
                         endpressure |-> Double(t.endpressure, 100),
                         gasmix |-> gasmix]]
        ELSE IF t.workpressure = 0 THEN [rc |-> "DATAFORMAT", value |-> NoValue]
        ELSE [rc |-> "SUCCESS",
              \* volume and workpressure stand for volume * CUFT * 1000 /
              \* (workpressure * PSI / ATM) and workpressure * PSI / BAR.
              value |-> [kind |-> "tank", type |-> "IMPERIAL",
                         volume |-> t.volume, workpressure |-> t.workpressure,
                         beginpressure |-> Double(t.beginpressure, 100),
                         endpressure |-> Double(t.endpressure, 100),
                         gasmix |-> gasmix]]

FieldSalinity(m, f) ==
    IF m = GENIUS
    THEN LET salinity == U32Bits(f.settings, 5, 3)
         IN  IF salinity = WATER_FRESH
             THEN [rc |-> "SUCCESS", value |-> [kind |-> "salinity", type |-> "FRESH", density |-> Double(0, 1)]]
             ELSE IF salinity = WATER_SALT
             THEN [rc |-> "SUCCESS", value |-> [kind |-> "salinity", type |-> "SALT", density |-> Double(0, 1)]]
             ELSE IF salinity = WATER_EN13319
             THEN [rc |-> "SUCCESS", value |-> [kind |-> "salinity", type |-> "SALT", density |-> Double(1000000000, 980665)]]
             ELSE [rc |-> "DATAFORMAT", value |-> NoValue]
    ELSE IF m = SMARTAPNEA
    THEN LET salinity == U32Bits(f.settings, 0, 63)
         IN  [rc |-> "SUCCESS",
              value |-> [kind |-> "salinity",
                         type |-> IF salinity = 0 THEN "FRESH" ELSE "SALT",
                         density |-> Double(1000 + salinity, 1)]]
    ELSE [rc |-> "SUCCESS",
          value |-> [kind |-> "salinity",
                     type |-> IF U32Bits(f.settings, 4, 1) # 0 THEN "FRESH" ELSE "SALT",
                     density |-> Double(0, 1)]]

FieldDivemode(m, f) ==
    IF m = GENIUS
    THEN (IF f.mode \in {GENIUS_AIR, GENIUS_NITROX_SINGLE, GENIUS_NITROX_MULTI, GENIUS_TRIMIX}
          THEN [rc |-> "SUCCESS", value |-> [kind |-> "divemode", v |-> "OC"]]
          ELSE IF f.mode = GENIUS_GAUGE
          THEN [rc |-> "SUCCESS", value |-> [kind |-> "divemode", v |-> "GAUGE"]]
          ELSE IF f.mode = GENIUS_FREEDIVE
          THEN [rc |-> "SUCCESS", value |-> [kind |-> "divemode", v |-> "FREEDIVE"]]
          ELSE [rc |-> "DATAFORMAT", value |-> NoValue])
    ELSE (IF f.mode \in {ICONHD_AIR, ICONHD_NITROX}
          THEN [rc |-> "SUCCESS", value |-> [kind |-> "divemode", v |-> "OC"]]
          ELSE IF f.mode = ICONHD_GAUGE
          THEN [rc |-> "SUCCESS", value |-> [kind |-> "divemode", v |-> "GAUGE"]]
          ELSE IF f.mode = ICONHD_FREEDIVE
          THEN [rc |-> "SUCCESS", value |-> [kind |-> "divemode", v |-> "FREEDIVE"]]
          ELSE [rc |-> "DATAFORMAT", value |-> NoValue])

Ok(value) == [rc |-> "SUCCESS", value |-> value]

\* The switch of get_field, on a parser whose header is cached.
Field(m, f, mv, size, type, flags) ==
    LET p == HeaderPtr(m, f, size)
    IN  CASE type = "DIVETIME" -> Ok(UInt(FieldDivetime(m, f, mv, p)))
          [] type = "MAXDEPTH" ->
                Ok(Double(array_uint16_le(mv, p + ByVariant(m, f, 34, 58, 26, 0)), 10))
          [] type = "GASMIX_COUNT" -> Ok(UInt(f.ngasmixes))
          [] type = "GASMIX" ->
                LET g == GasmixRead(f, mv, flags)
                IN  Ok([kind |-> "gasmix",
                        oxygen |-> Double(g.oxygen, 100),
                        helium |-> Double(g.helium, 100),
                        nitrogen |-> Double(100 - g.oxygen - g.helium, 100)])
          [] type = "TANK_COUNT" -> Ok(UInt(f.ntanks))
          [] type = "TANK" -> FieldTank(m, f, mv, p, flags)
          [] type = "ATMOSPHERIC" ->
                Ok(Double(array_uint16_le(mv, p + ByVariant(m, f, 62, 56, 24, 34)),
                          IF m # GENIUS /\ m # SMARTAPNEA /\ f.mode # ICONHD_FREEDIVE
                          THEN 8000 ELSE 1000))
          [] type = "SALINITY" -> FieldSalinity(m, f)
          [] type = "TEMPERATURE_MINIMUM" ->
                Ok(Double(SignedShort(array_uint16_le(mv, p + ByVariant(m, f, 40, 62, 28, 66))), 10))
          [] type = "TEMPERATURE_MAXIMUM" ->
                Ok(Double(SignedShort(array_uint16_le(mv, p + ByVariant(m, f, 38, 60, 30, 68))), 10))
          [] type = "DIVEMODE" -> FieldDivemode(m, f)
          [] OTHER -> [rc |-> "UNSUPPORTED", value |-> NoValue]

mares_iconhd_parser_get_field(m, f, mv, size, type, flags) ==
    LET c == mares_iconhd_parser_cache(m, f, mv, size)
    IN  IF c.rc # "SUCCESS" THEN Result(c.rc, NoValue, <<>>, c)
        ELSE LET r == Field(m, c.f, mv, c.size, type, flags)
             IN  Result(r.rc, r.value, <<>>, c)

(***************************************************************************)
(* mares_iconhd_parser_samples_foreach.  The events are the calls of the   *)
(* callback, in order.                                                     *)
(***************************************************************************)
GASMIX_NONE == -1

TimeEv(t) == [type |-> "TIME", time |-> t]

DepthEv(d) == [type |-> "DEPTH", depth |-> Double(d, 10)]

TemperatureEv(t) == [type |-> "TEMPERATURE", temperature |-> Double(t, 10)]

GasmixEv(g) == [type |-> "GASMIX", gasmix |-> g]

DecoEv(kind, depth, time) == [type |-> "DECO", deco |-> kind, depth |-> depth, time |-> time]

AlarmEv(kind) == [type |-> "EVENT", event |-> kind]

PressureEv(tank, p) == [type |-> "PRESSURE", tank |-> tank, pressure |-> Double(p, 100)]

IsAirIntegrated(m) == m = ICONHDNET \/ m = QUADAIR \/ m = SMARTAIR \/ m = GENIUS

\* The clock after one more interval, surface time or dive time.
Advance(time, seconds) == time + seconds

\* The depth readings that follow the surface record of a Smart Apnea dive.
RECURSIVE ApneaReadings(_, _, _, _, _, _, _)
ApneaReadings(f, mv, i, divetime, offset, time, ev) ==
    IF i >= divetime THEN [offset |-> offset, time |-> time, events |-> ev]
    ELSE ApneaReadings(f, mv, i + 1, divetime, offset + 2 * f.samplerate,
            Advance(time, f.interval),
            ev \o <<TimeEv(Advance(time, f.interval)), DepthEv(array_uint16_le(mv, offset))>>)

\* The events of the alarm bits i..31 of a Genius sample.
RECURSIVE AlarmEvents(_, _)
AlarmEvents(alarms, i) ==
    IF i > 31 THEN <<>>
    ELSE (IF U32Bits(alarms, i, 1) = 0 THEN <<>>
          ELSE IF i = ALARM_FAST_ASCENT \/ i = ALARM_UNCONTROLLED_ASCENT
               THEN <<AlarmEv("ASCENT")>>
          ELSE IF i = ALARM_MISSED_DECO \/ i = ALARM_DIVE_VIOLATION_DECO
               THEN <<AlarmEv("CEILING")>>
          ELSE <<>>) \o AlarmEvents(alarms, i + 1)

\* The deco event of a Genius sample at buffer offset o.
GeniusDeco(mv, o, misc) ==
    IF U32Bits(misc, 18, 1) # 0
    THEN DecoEv("DECOSTOP", U32Bits(misc, 19, 127), array_uint16_le(mv, o + 4 + 10) * 60)
    ELSE DecoEv("NDL", 0, array_uint16_le(mv, o + 4 + 10) * 60)

\* The gas mix index of the sample record at buffer offset o.
SampleGasmix(m, mv, o) ==
    IF m = GENIUS THEN U32Bits(array_uint32_le(mv, o + 4 + 20), 6, 15)
    ELSE Shr(And(u8(mv, o + 3), 240), 4)

\* The index that equals the count passes.
GasmixOver(f, gasmix) == f.ngasmixes > 0 /\ gasmix > f.ngasmixes

\* The index is checked only when there are gas mixes.
GasmixInvalid(f, gasmix) == f.ngasmixes > 0 /\ gasmix >= f.ngasmixes

\* A gas mix event for every sample.
GasmixAlways(f, gasmix, previous) == f.ngasmixes > 0

GasmixChanged(f, gasmix, previous) == f.ngasmixes > 0 /\ gasmix # previous

\* Whether a tank pressure record follows the sample that made the count n.
\* The tank pressure follows the first of every four samples.
PressureAfterFirst(m, n) == IsAirIntegrated(m) /\ n % 4 = 1

HasPressure(m, n) == IsAirIntegrated(m) /\ n % 4 = 0

\* The events of one sample record before the gas mix is looked at.
SampleHead(m, f, mv, o, time) ==
    IF m = GENIUS
    THEN <<TimeEv(Advance(time, f.interval)),
           DepthEv(array_uint16_le(mv, o + 4)),
           TemperatureEv(array_uint16_le(mv, o + 4 + 4))>>
    ELSE <<TimeEv(Advance(time, f.interval)),
           DepthEv(array_uint16_le(mv, o)),
           TemperatureEv(And(array_uint16_le(mv, o + 2), 4095))>>

\* The while loop.  base is the offset of data in the buffer, st the loop's
\* variables and the events so far.
RECURSIVE WalkLoop(_, _, _, _, _)
WalkLoop(m, f, mv, base, st) ==
    IF ~(st.nsamples < f.nsamples) THEN [rc |-> "SUCCESS", st |-> st]
    ELSE
    LET o == base + st.offset
    IN
    IF m = SMARTAPNEA THEN
        LET divetime == array_uint16_le(mv, o + 2)
            surftime == array_uint16_le(mv, o + 4)
            t1 == Advance(st.time, surftime)
            r == ApneaReadings(f, mv, 0, divetime, st.offset + f.samplesize, t1,
                               st.events \o <<TimeEv(t1), DepthEv(0)>>)
        IN  WalkLoop(m, f, mv, base,
                [offset |-> r.offset, time |-> r.time, nsamples |-> st.nsamples + 1,
                 previous |-> st.previous, events |-> r.events])
    ELSE IF m # GENIUS /\ f.mode = ICONHD_FREEDIVE THEN
        LET maxdepth == array_uint16_le(mv, o)
            divetime == array_uint16_le(mv, o + 2)
            surftime == array_uint16_le(mv, o + 4)
            t1 == Advance(st.time, surftime)
            t2 == Advance(t1, divetime)
        IN  WalkLoop(m, f, mv, base,
                [offset |-> st.offset + f.samplesize, time |-> t2,
                 nsamples |-> st.nsamples + 1, previous |-> st.previous,
                 events |-> st.events \o
                    <<TimeEv(t1), DepthEv(0), TimeEv(t2), DepthEv(maxdepth)>>])
    ELSE IF m = GENIUS /\ ~mares_genius_isvalid(mv, o, DPRS_SIZE, DPRS_TYPE)
        THEN [rc |-> "DATAFORMAT", st |-> st]
    ELSE
        LET gasmix == SampleGasmix(m, mv, o)
            ev1 == st.events \o SampleHead(m, f, mv, o, st.time)
        IN
        IF GasmixInvalid(f, gasmix)
        THEN [rc |-> "DATAFORMAT", st |-> [st EXCEPT !.events = ev1]]
        ELSE
        LET ev2 == IF GasmixChanged(f, gasmix, st.previous)
                   THEN ev1 \o <<GasmixEv(gasmix)>> ELSE ev1
            previous == IF GasmixChanged(f, gasmix, st.previous) THEN gasmix ELSE st.previous
            ev3 == IF m = GENIUS
                   THEN ev2 \o <<GeniusDeco(mv, o, array_uint32_le(mv, o + 4 + 20))>>
                            \o AlarmEvents(array_uint32_le(mv, o + 4 + 12), 0)
                   ELSE ev2
            offset == st.offset + f.samplesize
            n == st.nsamples + 1
            marker == IF m = GENIUS THEN 4 ELSE 0
        IN
        IF ~HasPressure(m, n)
        THEN WalkLoop(m, f, mv, base,
                [offset |-> offset, time |-> Advance(st.time, f.interval), nsamples |-> n,
                 previous |-> previous, events |-> ev3])
        ELSE IF m = GENIUS /\ ~mares_genius_isvalid(mv, base + offset, AIRS_SIZE, AIRS_TYPE)
        THEN [rc |-> "DATAFORMAT",
              st |-> [offset |-> offset, time |-> Advance(st.time, f.interval),
                      nsamples |-> n, previous |-> previous, events |-> ev3]]
        ELSE WalkLoop(m, f, mv, base,
                [offset |-> offset + (IF m = GENIUS THEN AIRS_SIZE ELSE 8),
                 time |-> Advance(st.time, f.interval), nsamples |-> n,
                 previous |-> previous,
                 events |-> IF gasmix < f.ntanks
                            THEN ev3 \o <<PressureEv(gasmix,
                                    array_uint16_le(mv, base + offset + marker))>>
                            ELSE ev3])

\* The footer is not looked at.
FooterSkipped(m, mv, o) == TRUE

\* The Genius footer: the DEND record must be valid.
FooterOk(m, mv, o) == m # GENIUS \/ mares_genius_isvalid(mv, o, DEND_SIZE, DEND_TYPE)

\* The walk, on a parser whose header is cached.
Walk(m, f, mv) ==
    LET base == IF m = GENIUS THEN f.headersize ELSE 0
        start == [offset |-> IF m = GENIUS THEN 4 + DSTR_SIZE + TISS_SIZE ELSE 4,
                  time |-> 0, nsamples |-> 0, previous |-> GASMIX_NONE, events |-> <<>>]
    IN
    IF m = GENIUS /\ (array_uint16_le(mv, base) # 0 \/ u8(mv, base + 2) # 2
                      \/ u8(mv, base + 3) # 0)
    THEN [rc |-> "DATAFORMAT", events |-> <<>>]
    ELSE IF m = GENIUS /\ ~mares_genius_isvalid(mv, base + 4, DSTR_SIZE, DSTR_TYPE)
    THEN [rc |-> "DATAFORMAT", events |-> <<>>]
    ELSE IF m = GENIUS /\ ~mares_genius_isvalid(mv, base + 4 + DSTR_SIZE, TISS_SIZE, TISS_TYPE)
    THEN [rc |-> "DATAFORMAT", events |-> <<>>]
    ELSE
    LET w == WalkLoop(m, f, mv, base, start)
    IN  IF w.rc # "SUCCESS" THEN [rc |-> w.rc, events |-> w.st.events]
        ELSE IF ~FooterOk(m, mv, base + w.st.offset)
        THEN [rc |-> "DATAFORMAT", events |-> w.st.events]
        ELSE [rc |-> "SUCCESS", events |-> w.st.events]

mares_iconhd_parser_samples_foreach(m, f, mv, size) ==
    LET c == mares_iconhd_parser_cache(m, f, mv, size)
    IN  IF c.rc # "SUCCESS" THEN Result(c.rc, NoValue, <<>>, c)
        ELSE LET w == Walk(m, c.f, mv)
             IN  Result(w.rc, NoValue, w.events, c)

(***************************************************************************)
(* mares_iconhd_parser_set_data.  The generic parser layer stores the new  *)
(* data pointer and size before it calls this; the function itself resets  *)
(* the cache.                                                              *)
(***************************************************************************)
\* The counts of the previous dive are left in place.
ResetKeepsCounts(m, f) ==
    [DefaultFields(m) EXCEPT !.ngasmixes = f.ngasmixes, !.ntanks = f.ntanks]

ResetFields(m, f) ==
    [cached |-> 0,
     mode |-> IF m = GENIUS THEN GENIUS_AIR ELSE ICONHD_AIR,
     nsamples |-> 0, samplesize |-> 0, headersize |-> 0, settings |-> U32(0),
     interval |-> 0, samplerate |-> 0, ntanks |-> 0, ngasmixes |-> 0,
     gasmix |-> [i \in 0..(NGASMIXES - 1) |-> NoGasmix],
     tank |-> [i \in 0..(NTANKS - 1) |-> NoTank]]

mares_iconhd_parser_set_data(m, f) == [rc |-> "SUCCESS", f |-> ResetFields(m, f)]

(***************************************************************************)
(* The buffers the parser is given.  They are built field by field at the  *)
(* offsets of the dive formats, from a description d; the descriptions     *)
(* also say how a buffer departs from a well-formed dive.                  *)
(***************************************************************************)
MaxSamples == 4
MaxTrail == 2
MaxReadings == 2

\* The highest gas mix or tank index asked for.
MaxFlags == 5

NoBytes == [i \in {} |-> 0]

B8(off, v) == off :> v

B16(off, v) == (off :> (v % 256)) @@ ((off + 1) :> (v \div 256))

B32(off, w) == B16(off, w[2]) @@ B16(off + 2, w[1])

Tag(off, type) ==
    (off :> (type \div 16777216)) @@ ((off + 1) :> ((type \div 65536) % 256))
    @@ ((off + 2) :> ((type \div 256) % 256)) @@ ((off + 3) :> (type % 256))

RECURSIVE Concat(_, _, _)
Concat(F(_), lo, hi) == IF lo > hi THEN NoBytes ELSE F(lo) @@ Concat(F, lo + 1, hi)

\* The buffer of len bytes that holds b[i] where b says so and 0 elsewhere.
MkBuf(len, b) ==
    LET set == DOMAIN b
    IN  [len |-> len, b |-> [i \in 0..(len - 1) |-> IF i \in set THEN b[i] ELSE 0]]

\* The dive a description of a non-Genius buffer stands for:
\*   m, mode, ns            model, dive mode, number of sample records
\*   s8, s12                the 16-bit words at header offsets 0x08 and 0x0C
\*                          (0x1C for the Smart Apnea is s12)
\*   off                    the gas mix slots that are disabled
\*   tanks                  per tank slot, <<beginpressure, endpressure>>
\*   gas                    per sample record, its gas mix index
\*   recs                   per freedive or apnea record, <<divetime, surftime>>
\*   rd                     per apnea record, the depth readings that follow it
\*   hdt                    the Smart Apnea's 32-bit dive time in the header
\*   dlen, dns              added to the stored length and sample count
\*   trail                  bytes that follow the dive, each holding fill
StdRate(d) == IF d.m = SMARTAPNEA THEN Pow2((d.s12 \div 512) % 4) ELSE 1

StdComposite(d) == d.m = SMARTAPNEA \/ d.mode = ICONHD_FREEDIVE

\* The readings that follow the apnea records before record i.
RECURSIVE StdReadingsBefore(_, _)
StdReadingsBefore(d, i) ==
    IF i <= 1 THEN 0 ELSE d.rd[i - 1] + StdReadingsBefore(d, i - 1)

\* The offset of sample record i (from 1).
StdRecordOffset(d, i) ==
    4 + (i - 1) * IconhdLayout(d.m, d.mode)[2]
      + (IF d.m = SMARTAPNEA THEN StdReadingsBefore(d, i) * 2 * StdRate(d)
         ELSE IF IsTankModel(d.m) /\ ~StdComposite(d) THEN ((i - 1) \div 4) * 8
         ELSE 0)

\* The length of the dive, as the format defines it.
StdLength(d) ==
    4 + IconhdLayout(d.m, d.mode)[1] + d.ns * IconhdLayout(d.m, d.mode)[2]
      + (IF d.m = SMARTAPNEA THEN StdReadingsBefore(d, d.ns + 1) * 2 * StdRate(d)
         ELSE IF IsTankModel(d.m) THEN (d.ns \div 4) * 8
         ELSE 0)

StdRecord(d, i) ==
    LET o == StdRecordOffset(d, i)
    IN  IF StdComposite(d)
        THEN B16(o, 100 + i) @@ B16(o + 2, d.recs[i][1]) @@ B16(o + 4, d.recs[i][2])
             @@ (IF d.m = SMARTAPNEA
                 THEN Concat(LAMBDA k : B16(o + 14 + (k - 1) * 2 * StdRate(d), 50 + k),
                             1, d.rd[i])
                 ELSE NoBytes)
        ELSE B16(o, 200 + i) @@ B16(o + 2, 150 + i + 4096 * d.gas[i])
             @@ (IF IsTankModel(d.m) /\ i % 4 = 0
                 THEN B16(o + IconhdLayout(d.m, d.mode)[2], 20000 - i) ELSE NoBytes)

StdHeader(d) ==
    LET len == StdLength(d)
        hs == IconhdLayout(d.m, d.mode)[1]
        p == IconhdHeaderPtr(d.m, len, hs)
        t == len - IconhdPrelimHeader(d.m)
        toff == IconhdTankOffset(d.m)
    IN  B32(0, U32(len + d.dlen))
        @@ (IF IsSmartFamily(d.m) THEN B16(t, d.ns + d.dns) @@ B16(t + 2, d.mode + 8)
            ELSE B16(t, d.mode + 8) @@ B16(t + 2, d.ns + d.dns))
        @@ (IF d.m = SMARTAPNEA
            THEN B16(p + 28, d.s12) @@ B32(p + 36, d.hdt) @@ B16(p + 58, 321)
                 @@ B16(p + 64, 10) @@ B16(p + 66, 30) @@ B16(p + 68, 15)
                 @@ B16(p + 70, 4) @@ B16(p + 72, 120) @@ B16(p + 62, 65526)
            ELSE IF d.mode = ICONHD_FREEDIVE
            THEN B16(p + 8, d.s8) @@ B16(p + 12, d.s12) @@ B16(p + 26, 321)
                 @@ B16(p + 32, 10) @@ B16(p + 34, 30) @@ B16(p + 36, 15)
                 @@ B16(p + 38, 4) @@ B16(p + 40, 120) @@ B16(p + 28, 65526)
            ELSE B16(p, 321) @@ B16(p + 2, 10) @@ B16(p + 4, 30) @@ B16(p + 6, 15)
                 @@ B16(p + 8, 4) @@ B16(p + 10, 120) @@ B16(p + 12, d.s12)
                 @@ B16(p + 66, 65526)
                 @@ Concat(LAMBDA i : B8(p + 16 + i * 4, 32 + i)
                                      @@ B8(p + 16 + i * 4 + 1, IF i \in d.off THEN 128 ELSE 0),
                           0, NGASMIXES_ICONHD - 1)
                 @@ (IF IsTankModel(d.m)
                     THEN Concat(LAMBDA i : B16(p + toff + i * 4, d.tanks[i + 1][1])
                                            @@ B16(p + toff + i * 4 + 2, d.tanks[i + 1][2])
                                            @@ B16(p + toff + 12 + i * 8, 12 + i)
                                            @@ B16(p + toff + 12 + i * 8 + 2, 200 * i),
                                 0, NTANKS_ICONHD - 1)
                     ELSE NoBytes))

StdBuffer(d) ==
    MkBuf(StdLength(d) + d.trail,
          StdHeader(d) @@ Concat(LAMBDA i : StdRecord(d, i), 1, d.ns)
          @@ Concat(LAMBDA k : B8(StdLength(d) + k, d.fill), 0, d.trail - 1))

\* The dive a description of a Genius buffer stands for:
\*   mode, ns               dive mode, number of DPRS records
\*   active                 the gas mix slots whose state is not off
\*   tanks                  per slot, <<beginpressure, endpressure>>
\*   gas                    per sample record, its gas mix index
\*   alarms                 the alarm bits of every sample record
\*   bad                    the record that is damaged, and badk which of them:
\*                          "none", "object", "profile", "dstr", "tiss", "dprs",
\*                          "airs", "dend_head", "dend_tail", "dend_crc",
\*                          "dend_missing"
\*   cut                    bytes missing at the end
\*   trail                  bytes that follow the dive, each holding fill
GeniusLength(d) == GeniusNbytes(d.ns)

\* A framed record at off: the tag, the payload, its checksum, the tag again.
Framed(off, size, type, payload) ==
    LET crc == checksum_crc16_ccitt(View(MkBuf(off + size, payload), 0),
                                    off + 4, size - 10, 0)
    IN  Tag(off, type) @@ payload @@ B16(off + size - 6, crc) @@ Tag(off + size - 4, type)

\* The offset of DPRS record i (from 1).
GeniusRecordOffset(i) ==
    GeniusHeaderSize + 4 + DSTR_SIZE + TISS_SIZE + (i - 1) * DPRS_SIZE
        + ((i - 1) \div 4) * AIRS_SIZE

GeniusRecord(d, i) ==
    LET o == GeniusRecordOffset(i)
        misc == d.gas[i] * 64 + (IF i % 2 = 0 THEN 262144 + 9 * 524288 ELSE 0)
    IN  (IF d.bad = "dprs" /\ d.badk = i THEN B8(o + 5, 1) ELSE NoBytes)
        @@ Framed(o, DPRS_SIZE, DPRS_TYPE,
                  B16(o + 4, 200 + i) @@ B16(o + 8, 150 + i) @@ B16(o + 14, i)
                  @@ B32(o + 16, U32(d.alarms)) @@ B32(o + 24, U32(misc)))
        @@ (IF i % 4 = 0
            THEN (IF d.bad = "airs" THEN B8(o + DPRS_SIZE + 6, 1) ELSE NoBytes)
                 @@ Framed(o + DPRS_SIZE, AIRS_SIZE, AIRS_TYPE,
                           B16(o + DPRS_SIZE + 4, 20000 - i))
            ELSE NoBytes)

GeniusHeader(d) ==
    B16(0, IF d.bad = "object" THEN 2 ELSE 1)
    @@ B32(8, U32(10 + 30 * 32 + 15 * 2048 + 4 * 65536 + 2020 * 1048576))
    @@ B32(12, U32(d.mode + 32 * d.sal))
    @@ B16(32, d.ns) @@ B16(34, 321) @@ B16(40, 65526) @@ B8(52, d.metric)
    @@ Concat(LAMBDA i : B32(84 + i * 20,
                             U32(21 + i + 128 * (79 - 2 * i) + 16384 * i
                                 + 2097152 * (IF i \in d.active THEN 1 ELSE 0)))
                         @@ B16(84 + i * 20 + 4, d.tanks[i + 1][1])
                         @@ B16(84 + i * 20 + 6, d.tanks[i + 1][2])
                         @@ B16(84 + i * 20 + 8, 12 + i)
                         @@ B16(84 + i * 20 + 10, 200 * i),
              0, NGASMIXES_GENIUS - 1)

GeniusFooter(d) ==
    LET o == GeniusLength(d) - DEND_SIZE
        good == Framed(o, DEND_SIZE, DEND_TYPE, B16(o + 4, 7))
    IN  IF d.bad = "dend_missing" THEN NoBytes
        ELSE IF d.bad = "dend_head" THEN B8(o, 1) @@ good
        ELSE IF d.bad = "dend_tail" THEN B8(o + DEND_SIZE - 1, 1) @@ good
        ELSE IF d.bad = "dend_crc" THEN B8(o + DEND_SIZE - 6, 1) @@ good
        ELSE good

GeniusBuffer(d) ==
    LET o == GeniusHeaderSize
    IN  MkBuf(GeniusLength(d) - d.cut + d.trail,
              GeniusHeader(d)
              @@ B8(o + 2, IF d.bad = "profile" THEN 1 ELSE 2)
              @@ (IF d.bad = "dstr" THEN B8(o + 4 + 10, 1) ELSE NoBytes)
              @@ Framed(o + 4, DSTR_SIZE, DSTR_TYPE, B16(o + 4 + 4, 3))
              @@ (IF d.bad = "tiss" THEN B8(o + 4 + DSTR_SIZE, 1) ELSE NoBytes)
              @@ Framed(o + 4 + DSTR_SIZE, TISS_SIZE, TISS_TYPE, B16(o + 4 + DSTR_SIZE + 4, 5))
              @@ Concat(LAMBDA i : GeniusRecord(d, i), 1, d.ns)
              @@ GeniusFooter(d)
              @@ Concat(LAMBDA k : B8(GeniusLength(d) + k, d.fill), 0, d.trail - 1))

(***************************************************************************)
(* The descriptions: a well-formed dive of each model, and the families    *)
(* that vary its mode, settings, gas mixes, tanks, samples, lengths.       *)
(***************************************************************************)
Active == <<18000, 5000>>
Unused == <<0, 0>>
NoLink == <<0, 36000>>
EndOnly == <<0, 5000>>

StdBase(m) ==
    [m |-> m, mode |-> ICONHD_NITROX, ns |-> 0, s8 |-> 2048, s12 |-> 1024 + 256 + 16,
     off |-> {}, tanks |-> <<Active, Unused, Unused>>, gas |-> <<>>, recs |-> <<>>,
     rd |-> <<>>, hdt |-> U32(0), dlen |-> 0, dns |-> 0, trail |-> 0, fill |-> 0]

\* ns sample records, record k with gas mix index g and the others with 0.
GasSeq(ns, k, g) == [i \in 1..ns |-> IF i = k THEN g ELSE 0]

StdModes(m) ==
    {[StdBase(m) EXCEPT !.mode = mo, !.off = o] : mo \in 0..3, o \in {{}, {0}}}
    \cup {[StdBase(m) EXCEPT !.mode = ICONHD_AIR, !.s12 = s] :
            s \in {0, 2048 + 256, 3072 + 16}}

StdGasmixes(m) == {[StdBase(m) EXCEPT !.off = o] : o \in SUBSET (0..(NGASMIXES_ICONHD - 1))}

StdTanks(m) ==
    {[StdBase(m) EXCEPT !.tanks = t, !.off = o] :
        t \in {<<Unused, Active, Active>>, <<Active, Unused, Active>>,
               <<Active, NoLink, Active>>, <<EndOnly, Active, Unused>>,
               <<Active, Active, Active>>, <<NoLink, Active, Active>>},
        o \in {{}, {1}}}

\* The sample walks looked at: ns records of which record k has gas mix index g,
\* next to c active gas mixes; g is the last valid index or the first invalid one.
SampleCases(counts) ==
    UNION {{<<ns, c, k, g>> : k \in {1, ns},
                              g \in {IF c = 0 THEN 0 ELSE c - 1, IF c = 0 THEN 1 ELSE c}} :
           <<ns, c>> \in {1, MaxSamples} \X counts}

StdSamples(m) ==
    {[StdBase(m) EXCEPT !.ns = x[1],
                        !.off = IF x[2] < NGASMIXES_ICONHD THEN {x[2]} ELSE {},
                        !.gas = GasSeq(x[1], x[3], x[4])] :
        x \in SampleCases(0..NGASMIXES_ICONHD)}

\* Walks that go back and forth between two active gas mixes: the records
\* whose number modulo 4 is in ones have index 1, the others index 0.
GasPatterns == {{2, 3}, {0, 1, 2}}

GasPattern(ns, ones) == [i \in 1..ns |-> IF i % 4 \in ones THEN 1 ELSE 0]

StdGasChanges(m) ==
    {[StdBase(m) EXCEPT !.ns = MaxSamples + 1, !.off = {2}, !.tanks = t,
                        !.gas = GasPattern(MaxSamples + 1, ones)] :
        ones \in GasPatterns, t \in {<<Active, Unused, Unused>>, <<Active, Active, Unused>>}}

StdFreedives(m) ==
    {[StdBase(m) EXCEPT !.mode = ICONHD_FREEDIVE, !.ns = ns,
                        !.recs = [i \in 1..ns |-> r]] :
        ns \in 0..2, r \in {<<0, 0>>, <<3, 0>>, <<0, 2>>, <<3, 2>>}}

StdLengths(m) ==
    {[StdBase(m) EXCEPT !.ns = ns, !.gas = GasSeq(ns, 0, 0), !.dlen = x[1], !.dns = x[2],
                        !.trail = x[3], !.fill = fill] :
        ns \in {0, MaxSamples},
        x \in {<<0 - 1, 0, 0>>, <<1, 0, 1>>, <<0, 1, 0>>, <<0, 4, 0>>}
              \cup {<<0, 0, t>> : t \in 1..MaxTrail},
        fill \in {0, 255}}

\* Smart Apnea dives: rate is the index of the sample rate in the settings.
ApneaBase(rate) ==
    [StdBase(SMARTAPNEA) EXCEPT !.mode = ICONHD_FREEDIVE, !.s12 = 512 * rate + 5]

ApneaDives ==
    {[ApneaBase(rate) EXCEPT !.ns = ns, !.recs = [i \in 1..ns |-> <<n, st>>],
                             !.rd = [i \in 1..ns |-> n], !.hdt = U32(ns * n)] :
        rate \in {0, 1, 3}, ns \in 0..2, n \in 0..MaxReadings, st \in {0, 2}}

\* Records that announce more readings than the header accounts for.
ApneaOverruns ==
    {[ApneaBase(rate) EXCEPT !.ns = 1, !.recs = <<<<n, 2>>>>, !.rd = <<0>>,
                             !.trail = t, !.fill = fill] :
        rate \in {3}, n \in {1, 5, 6}, t \in {0, MaxTrail}, fill \in {0, 255}}

\* A header dive time whose byte count wraps around 2^32.
ApneaWraps ==
    {[ApneaBase(rate) EXCEPT !.hdt = <<32768 \div Pow2(rate), 0>>, !.ns = ns,
                             !.recs = [i \in 1..ns |-> <<0, 2>>],
                             !.rd = [i \in 1..ns |-> 0]] :
        rate \in {0, 1}, ns \in {0, 1}}

ApneaLengths ==
    {[ApneaBase(0) EXCEPT !.ns = 1, !.recs = <<<<1, 2>>>>, !.rd = <<1>>, !.hdt = U32(h),
                          !.dlen = x[1], !.dns = x[2], !.trail = x[3], !.fill = 255] :
        h \in {0, 1, 2},
        x \in {<<0, 0, 0>>, <<0 - 1, 0, 0>>, <<1, 0, 1>>, <<0, 1, 0>>, <<0, 0, MaxTrail>>}}

\* Buffers too short to hold any dive.
Stubs ==
    {MkBuf(n, B32(0, U32(l))) : n \in {0, 3, 4, 8}, l \in {0, 4}}

StdDescriptions(m) ==
    IF m = SMARTAPNEA THEN ApneaDives \cup ApneaOverruns \cup ApneaWraps \cup ApneaLengths
    ELSE StdModes(m) \cup StdGasmixes(m) \cup StdSamples(m) \cup StdFreedives(m)
         \cup StdLengths(m) \cup (IF IsTankModel(m) THEN StdTanks(m) ELSE {})
         \cup StdGasChanges(m)

GeniusBase ==
    [m |-> GENIUS, mode |-> GENIUS_NITROX_MULTI, sal |-> 1, metric |-> 1, ns |-> 0,
     active |-> {0}, tanks |-> <<Active, Unused, Unused, Unused, Unused>>,
     gas |-> <<>>, alarms |-> 0, bad |-> "none", badk |-> 0, cut |-> 0, trail |-> 0,
     fill |-> 0]

GeniusModes ==
    {[GeniusBase EXCEPT !.mode = mo, !.sal = sal, !.metric = me] :
        mo \in {GENIUS_AIR, GENIUS_TRIMIX, GENIUS_GAUGE, GENIUS_FREEDIVE, 9},
        sal \in {0, 3}, me \in {0, 1}}

GeniusSlots ==
    {[GeniusBase EXCEPT !.active = a, !.tanks = t] :
        a \in {0..(c - 1) : c \in 0..NGASMIXES_GENIUS}
              \cup {{1}, {0, 2}, {0, 1, 3, 4}, {1, 2, 3, 4}},
        t \in {<<Unused, Unused, Unused, Unused, Unused>>,
               <<Active, Active, NoLink, Active, Active>>,
               <<EndOnly, Active, Active, Active, Active>>,
               <<NoLink, Active, Active, Active, Active>>}}

GeniusSamples ==
    {[GeniusBase EXCEPT !.ns = x[1], !.active = 0..(x[2] - 1),
                        !.gas = GasSeq(x[1], x[3], x[4]), !.alarms = al] :
        x \in SampleCases({0, 1, 2, NGASMIXES_GENIUS}), al \in {4 + 128 + 512}}

GeniusDamaged ==
    {[GeniusBase EXCEPT !.ns = ns, !.gas = GasSeq(ns, 0, 0), !.bad = x[1], !.badk = x[2],
                        !.cut = x[3], !.trail = x[4], !.fill = 255] :
        ns \in {0, 1, MaxSamples},
        x \in {<<"object", 0, 0, 0>>, <<"profile", 0, 0, 0>>, <<"dstr", 0, 0, 0>>,
               <<"tiss", 0, 0, 0>>, <<"dprs", 1, 0, 0>>, <<"dprs", MaxSamples, 0, 0>>,
               <<"airs", 0, 0, 0>>, <<"dend_head", 0, 0, 0>>, <<"dend_tail", 0, 0, 0>>,
               <<"dend_crc", 0, 0, 0>>, <<"dend_missing", 0, 0, 0>>,
               <<"none", 0, 1, 0>>, <<"none", 0, DEND_SIZE, 0>>}
              \cup {<<"none", 0, 0, t>> : t \in 1..MaxTrail}}

GeniusGasChanges ==
    {[GeniusBase EXCEPT !.ns = MaxSamples + 1, !.active = {0, 1}, !.tanks = t,
                        !.gas = GasPattern(MaxSamples + 1, ones), !.alarms = 4] :
        ones \in GasPatterns,
        t \in {<<Active, Unused, Unused, Unused, Unused>>,
               <<Active, Active, Unused, Unused, Unused>>}}

GeniusDescriptions ==
    GeniusModes \cup GeniusSlots \cup GeniusSamples \cup GeniusDamaged \cup GeniusGasChanges

\* The framed records of a Genius dive of ns samples, as <<offset, size, type>>.
GeniusRecords(ns) ==
    {<<GeniusHeaderSize + 4, DSTR_SIZE, DSTR_TYPE>>,
     <<GeniusHeaderSize + 4 + DSTR_SIZE, TISS_SIZE, TISS_TYPE>>,
     <<GeniusNbytes(ns) - DEND_SIZE, DEND_SIZE, DEND_TYPE>>}
    \cup {<<GeniusRecordOffset(i), DPRS_SIZE, DPRS_TYPE>> : i \in 1..ns}
    \cup {<<GeniusRecordOffset(i) + DPRS_SIZE, AIRS_SIZE, AIRS_TYPE>> :
            i \in {j \in 1..ns : j % 4 = 0}}

\* The first, the middle and the last byte of the bytes a record's checksum covers.
CoveredBytes(r) == {r[1] + 4, r[1] + 4 + ((r[2] - 10) \div 2), r[1] + r[2] - 7}

\* The buffer d with delta added to the byte at offset k.
CorruptAt(d, k, delta) == [d EXCEPT !.b[k] = (@ + delta) % 256]

\* Well-formed Genius dives with one byte changed under a record's checksum.
GeniusCorrupted ==
    UNION {{CorruptAt(GeniusBuffer([GeniusBase EXCEPT !.ns = ns, !.gas = GasSeq(ns, 0, 0)]),
                      k, delta) :
                k \in UNION {CoveredBytes(r) : r \in GeniusRecords(ns)}, delta \in {1, 128}} :
           ns \in {1, MaxSamples}}

\* The buffers a parser is given, each with the model of the parser.
Buffers ==
    {<<m, b>> : m \in Models, b \in Stubs}
    \cup {<<GENIUS, GeniusBuffer(d)>> : d \in GeniusDescriptions}
    \cup {<<GENIUS, b>> : b \in GeniusCorrupted}
    \cup UNION {{<<m, StdBuffer(d)>> : d \in StdDescriptions(m)} : m \in Models \ {GENIUS}}

\* The bytes a read past the end of the allocation may return.
OobBytes == {0, 255}

(***************************************************************************)
(* The state: the parser (its model, base_data and base_size of its base,  *)
(* its cached fields in parser), the call the caller is in (lastop, with   *)
(* the field asked for in arg) and what that call returned (status,        *)
(* out_value, out_events; validated tells whether the call ran the header  *)
(* validation).  A call is one step; the caller then takes the result      *)
(* (Return) and is free to call again.                                     *)
(***************************************************************************)
VARIABLES model, base_data, base_size, parser, lastop, arg, status, out_value, out_events, validated

vars == <<model, base_data, base_size, parser, lastop, arg, status, out_value, out_events, validated>>

NoArg == [type |-> "NONE", flags |-> 0]

\* mares_iconhd_parser_create: no data yet.
Init ==
    /\ model \in Models
    /\ base_data = MkBuf(0, NoBytes)
    /\ base_size = 0
    /\ parser = DefaultFields(model)
    /\ lastop = "create"
    /\ arg = NoArg
    /\ status = "SUCCESS"
    /\ out_value = NoValue
    /\ out_events = <<>>
    /\ validated = FALSE

Idle == lastop = "idle"

SetData ==
    /\ Idle
    /\ \E b \in Buffers, r \in {mares_iconhd_parser_set_data(model, parser)} :
        /\ b[1] = model
        /\ base_data' = b[2]
        /\ base_size' = b[2].len
        /\ parser' = r.f
        /\ status' = r.rc
        /\ lastop' = "set_data"
        /\ arg' = NoArg
        /\ out_value' = NoValue
        /\ out_events' = <<>>
        /\ validated' = FALSE
        /\ UNCHANGED model

\* A call returns r: the fields of the parser and the outputs as it leaves them.
Returns(op, a, r) ==
    /\ parser' = r.f
    /\ base_size' = r.size
    /\ status' = r.rc
    /\ out_value' = r.value
    /\ out_events' = r.events
    /\ validated' = r.validated
    /\ lastop' = op
    /\ arg' = a
    /\ UNCHANGED <<model, base_data>>

GetDatetime ==
    /\ Idle
    /\ \E oob \in OobBytes :
        \E r \in {mares_iconhd_parser_get_datetime(model, parser, View(base_data, oob), base_size)} :
            Returns("get_datetime", NoArg, r)

GetField ==
    /\ Idle
    /\ \E type \in FieldTypes, flags \in 0..MaxFlags, oob \in OobBytes :
        /\ flags = 0 \/ type \in {"GASMIX", "TANK"}
        /\ \E r \in {mares_iconhd_parser_get_field(model, parser, View(base_data, oob), base_size,
                                                   type, flags)} :
               Returns("get_field", [type |-> type, flags |-> flags], r)

SamplesForeach ==
    /\ Idle
    /\ \E oob \in OobBytes :
        \E r \in {mares_iconhd_parser_samples_foreach(model, parser, View(base_data, oob), base_size)} :
            Returns("samples_foreach", NoArg, r)

\* The call has returned: the caller has taken the result.
Return ==
    /\ ~Idle
    /\ lastop' = "idle"
    /\ arg' = NoArg
    /\ status' = "SUCCESS"
    /\ out_value' = NoValue
    /\ out_events' = <<>>
    /\ validated' = FALSE
    /\ UNCHANGED <<model, base_data, base_size, parser>>

Next == SetData \/ GetDatetime \/ GetField \/ SamplesForeach \/ Return

Spec == Init /\ [][Next]_vars


(***************************************************************************)
(* The properties.                                                         *)
(***************************************************************************)
IsCall(op) == op \in {"get_datetime", "get_field", "samples_foreach"}

Cached == parser.cached # 0

\* What the call in lastop returns on a parser that has just been given the
\* buffer d and has seen no buffer before.
FreshCall(d, oob) ==
    IF lastop = "get_datetime"
    THEN mares_iconhd_parser_get_datetime(model, DefaultFields(model),
                                          View(d, oob), d.len)
    ELSE IF lastop = "get_field"
    THEN mares_iconhd_parser_get_field(model, DefaultFields(model),
                                       View(d, oob), d.len, arg.type, arg.flags)
    ELSE mares_iconhd_parser_samples_foreach(model, DefaultFields(model),
                                             View(d, oob), d.len)

\* C1: set_data returns success and leaves the parser not cached with every
\* derived field at the default of its model; hence at any time the cached
\* fields and the results of get_datetime, get_field and samples_foreach are
\* those of a parser that was only ever given the present buffer.
C1_SetDataResets ==
    /\ lastop = "set_data" =>
          /\ status = "SUCCESS"
          /\ parser = DefaultFields(model)
          /\ base_size = base_data.len
    /\ ~Cached => parser = DefaultFields(model)
    /\ Cached =>
          \E c \in {mares_iconhd_parser_cache(model, DefaultFields(model),
                                              View(base_data, 0), base_data.len)} :
              c.rc = "SUCCESS" /\ parser = c.f /\ base_size = c.size
    /\ IsCall(lastop) =>
          \E oob \in OobBytes : \E r \in {FreshCall(base_data, oob)} :
              status = r.rc /\ out_value = r.value /\ out_events = r.events

\* C1 witness: set_data has just replaced the buffer by a dive with a header.
C1_Witness ==
    /\ lastop = "set_data"
    /\ status = "SUCCESS"
    /\ ~Cached
    /\ base_size >= 4 + 92

\* C2: a call made while the header is cached finds the cache successful
\* without validating again, and leaves the cached fields and the size of
\* the buffer exactly as they were.
C2_CacheIdempotent ==
    [][(Cached /\ IsCall(lastop')) =>
          /\ validated' = FALSE
          /\ parser' = parser
          /\ base_size' = base_size
          /\ \E c \in {mares_iconhd_parser_cache(model, parser, View(base_data, 0),
                                                  base_size)} :
                c.rc = "SUCCESS" /\ c.f = parser /\ c.size = base_size]_vars

\* C2 witness: a call on the Genius path that was served from the cache.
C2_Witness ==
    /\ model = GENIUS
    /\ lastop = "get_field"
    /\ Cached
    /\ validated = FALSE
    /\ status = "SUCCESS"

\* C3: a call whose header validation fails returns DATAFORMAT with no
\* output value and no sample event, and leaves the parser as it was: not
\* cached, every field and the size of the buffer unchanged.
C3_FailedValidationWritesNothing ==
    [][(IsCall(lastop') /\ validated' /\ parser'.cached = 0) =>
          /\ status' = "DATAFORMAT"
          /\ out_value' = NoValue
          /\ out_events' = <<>>
          /\ parser' = parser
          /\ parser = DefaultFields(model)
          /\ base_size' = base_size]_vars

\* C3 witness: get_datetime has failed on a buffer whose stored length is 4.
C3_Witness ==
    /\ lastop = "get_datetime"
    /\ status = "DATAFORMAT"
    /\ validated
    /\ ~Cached
    /\ base_size = 8
    /\ array_uint32_le(View(base_data, 0), 0) = U32(4)


(***************************************************************************)
(* What the present buffer holds, read independently of the caches.        *)
(***************************************************************************)
Mem == View(base_data, 0)

\* The stored length of the dive.
StoredLength == array_uint32_le(Mem, 0)

\* The header fields of a cached dive of the other models.
CachedHeader == IconhdHeaderPtr(model, base_size, parser.headersize)

\* Whether the bytes the header accounts for, counted without wrapping, are
\* n.  A dive time of 65536 s or more accounts for more than any buffer here.
TotalIs(n) ==
    LET fixed == 4 + parser.headersize + parser.nsamples * parser.samplesize
        divetime == array_uint32_le(Mem, CachedHeader + 36)
    IN  IF IsTankModel(model) THEN n = fixed + (parser.nsamples \div 4) * 8
        ELSE IF model = SMARTAPNEA
             THEN divetime[1] = 0 /\ n = fixed + divetime[2] * parser.samplerate * 2
        ELSE n = fixed

\* C4: on the standard path a header is cached only if the stored length
\* equals the recomputed total 4 + headersize + nsamples * samplesize (plus
\* (nsamples / 4) * 8 on the air-integrated models, plus divetime *
\* samplerate * 2 on the Smart Apnea); on the Genius path it is rejected for
\* its size exactly when the recomputed total exceeds the size of the buffer.
C4_SizeCheck ==
    (IsCall(lastop) /\ validated) =>
        IF model = GENIUS
        THEN LET nbytes == GeniusNbytes(array_uint16_le(Mem, 32))
             IN  /\ Cached => nbytes <= base_data.len
                 /\ (~Cached /\ base_data.len >= GeniusHeaderSize
                     /\ array_uint16_le(Mem, 0) = 1 /\ u8(Mem, 2) = 0 /\ u8(Mem, 3) = 0)
                        => nbytes > base_data.len
        ELSE Cached => (StoredLength = U32(base_size) /\ TotalIs(base_size))

Slots == IF model = GENIUS THEN NGASMIXES_GENIUS ELSE NGASMIXES_ICONHD

GasSlotOff(i) ==
    IF model = GENIUS THEN GeniusGasState(Mem, i) = GASMIX_OFF
    ELSE And(u8(Mem, CachedHeader + 16 + 4 * i + 1), 128) # 0

GasSlot(i) ==
    IF model = GENIUS THEN GeniusGasmixAt(Mem, i)
    ELSE [oxygen |-> u8(Mem, CachedHeader + 16 + 4 * i), helium |-> 0]

TankSlot(i) ==
    IF model = GENIUS THEN GeniusTankAt(Mem, i)
    ELSE IconhdTankAt(Mem, CachedHeader, IconhdTankOffset(model), i)

TankSlotOff(i) == TankInactive(TankSlot(i).beginpressure, TankSlot(i).endpressure)

\* The first slot that is off, or the number of slots.
FirstOff(Off(_)) ==
    IF \E i \in 0..(Slots - 1) : Off(i)
    THEN CHOOSE i \in 0..(Slots - 1) : Off(i) /\ \A j \in 0..(i - 1) : ~Off(j)
    ELSE Slots

\* The models whose gas mixes are scanned from the slots in the cached mode.
ScansGasmixes == model = GENIUS \/ parser.mode = ICONHD_NITROX

HasTankSlots == model = GENIUS \/ IsTankModel(model)

\* C5 (as amended): no slot after an inactive slot is reported; the gas
\* mixes reported are exactly the slots before the first inactive one on the
\* Genius and in nitrox mode, one 21% mix in air mode and none in gauge and
\* freedive mode; the tanks reported are exactly the slots before the first
\* inactive one on the Genius and the air-integrated models; each count is
\* fixed by its own slots alone.
C5_ActivePrefix ==
    Cached =>
        /\ \A i \in 0..(Slots - 1) :
              /\ GasSlotOff(i) => parser.ngasmixes <= i + 1
              /\ (HasTankSlots /\ TankSlotOff(i)) => parser.ntanks <= i
        /\ parser.ngasmixes =
              IF ScansGasmixes THEN FirstOff(GasSlotOff)
              ELSE IF parser.mode = ICONHD_AIR THEN 1 ELSE 0
        /\ parser.ntanks = IF HasTankSlots THEN FirstOff(TankSlotOff) ELSE 0
        /\ (~ScansGasmixes /\ parser.mode = ICONHD_AIR) =>
              parser.gasmix[0] = [oxygen |-> 21, helium |-> 0]
        /\ \A i \in 0..(Slots - 1) :
              /\ (i < parser.ngasmixes /\ ScansGasmixes) => parser.gasmix[i] = GasSlot(i)
              /\ i < parser.ntanks => parser.tank[i] = TankSlot(i)

\* C5 witness: a cached Genius header with an active slot after an inactive one.
C5_Witness ==
    /\ model = GENIUS
    /\ Cached
    /\ GasSlotOff(1)
    /\ ~GasSlotOff(2)
    /\ parser.ngasmixes = 1
    /\ parser.ntanks > 1

\* C5 as stated: the gas mixes and tanks reported are exactly the slots
\* before the first inactive one, for every header that caches.
C5_ExactPrefix ==
    Cached =>
        /\ parser.ngasmixes = FirstOff(GasSlotOff)
        /\ HasTankSlots => parser.ntanks = FirstOff(TankSlotOff)


\* The walk reads one record for each sample interval.
PerInterval == model = GENIUS \/ (model # SMARTAPNEA /\ parser.mode # ICONHD_FREEDIVE)

\* The offset of sample record i (from 0) of a cached dive.
RecordAt(i) ==
    IF model = GENIUS
    THEN GeniusHeaderSize + 4 + DSTR_SIZE + TISS_SIZE + i * DPRS_SIZE + (i \div 4) * AIRS_SIZE
    ELSE 4 + i * parser.samplesize + (IF IsTankModel(model) THEN (i \div 4) * 8 ELSE 0)

GasIndexAt(i) == SampleGasmix(model, Mem, RecordAt(i))

\* The sample records whose gas mix index is not below the cached count.
IndexOver == {i \in 0..(parser.nsamples - 1) : GasIndexAt(i) >= parser.ngasmixes}

\* The profile of a cached Genius dive is well framed up to its last sample.
SamplesFramed ==
    /\ array_uint16_le(Mem, GeniusHeaderSize) = 0
    /\ u8(Mem, GeniusHeaderSize + 2) = 2
    /\ u8(Mem, GeniusHeaderSize + 3) = 0
    /\ mares_genius_isvalid(Mem, GeniusHeaderSize + 4, DSTR_SIZE, DSTR_TYPE)
    /\ mares_genius_isvalid(Mem, GeniusHeaderSize + 4 + DSTR_SIZE, TISS_SIZE, TISS_TYPE)
    /\ \A i \in 0..(parser.nsamples - 1) :
          /\ mares_genius_isvalid(Mem, RecordAt(i), DPRS_SIZE, DPRS_TYPE)
          /\ (i + 1) % 4 = 0 =>
                mares_genius_isvalid(Mem, RecordAt(i) + DPRS_SIZE, AIRS_SIZE, AIRS_TYPE)

FooterFramed == mares_genius_isvalid(Mem, RecordAt(parser.nsamples), DEND_SIZE, DEND_TYPE)

WellFramed == model # GENIUS \/ (SamplesFramed /\ FooterFramed)

\* C6 (as amended): with a cached gas mix count above zero, a walk over
\* per-interval records fails with DATAFORMAT if a record's gas mix index is
\* the count or more, and an index of count - 1 or less is accepted; with a
\* count of zero the index is not checked and every index is accepted.
C6_GasIndexChecked ==
    (lastop = "samples_foreach" /\ Cached /\ PerInterval) =>
        /\ (parser.ngasmixes > 0 /\ IndexOver # {}) => status = "DATAFORMAT"
        /\ (parser.ngasmixes > 0 /\ IndexOver = {} /\ WellFramed) => status = "SUCCESS"
        /\ (parser.ngasmixes = 0 /\ WellFramed) => status = "SUCCESS"

\* C6 witness: a walk has failed on a record whose index equals a count of 2.
C6_Witness ==
    /\ lastop = "samples_foreach"
    /\ Cached
    /\ PerInterval
    /\ parser.ngasmixes = 2
    /\ parser.nsamples > 1
    /\ IndexOver = {parser.nsamples - 1}
    /\ GasIndexAt(parser.nsamples - 1) = 2
    /\ status = "DATAFORMAT"

\* C6 as stated: for every cached count, a record whose gas mix index is the
\* count or more makes the walk fail with DATAFORMAT.
C6_EveryCount ==
    (lastop = "samples_foreach" /\ Cached /\ PerInterval /\ IndexOver # {})
        => status = "DATAFORMAT"

\* The Time events of the last walk, in order.
TimeEvents == SelectSeq(out_events, LAMBDA e : e.type = "TIME")

DepthEvents == SelectSeq(out_events, LAMBDA e : e.type = "DEPTH")

\* C7: the timestamps of successive Time events of a walk are strictly
\* increasing.
C7_TimeStrictlyIncreasing ==
    lastop = "samples_foreach" =>
        \A i \in 1..(Len(TimeEvents) - 1) : TimeEvents[i].time < TimeEvents[i + 1].time

\* C8: when everything up to the last sample record of a Genius dive is
\* valid and the footer is not a valid DEND record, the walk delivers the
\* events of all the samples, in order, and then returns DATAFORMAT.
C8_FooterFailsAfterSamples ==
    (lastop = "samples_foreach" /\ model = GENIUS /\ Cached /\ SamplesFramed
     /\ (parser.ngasmixes > 0 => IndexOver = {}) /\ ~FooterFramed) =>
        /\ status = "DATAFORMAT"
        /\ TimeEvents = [i \in 1..parser.nsamples |-> TimeEv(i * parser.interval)]
        /\ DepthEvents = [i \in 1..parser.nsamples |->
                            DepthEv(array_uint16_le(Mem, RecordAt(i - 1) + 4))]
        /\ out_events # <<>> => out_events[1].type = "TIME"

\* C8 witness: a walk over several samples has ended at a footer whose stored
\* checksum is wrong.
C8_Witness ==
    /\ lastop = "samples_foreach"
    /\ model = GENIUS
    /\ Cached
    /\ parser.nsamples > 1
    /\ SamplesFramed
    /\ ~FooterFramed
    /\ array_uint32_be(Mem, RecordAt(parser.nsamples)) = U32(DEND_TYPE)
    /\ Len(TimeEvents) = parser.nsamples
    /\ status = "DATAFORMAT"

\* The header size and sample size of a cached dive.
CachedLayout == <<parser.headersize, parser.samplesize>>

\* C9 (as amended): the cached header size and sample size are 0x5C/8 for
\* the Smart (0x2E/6 in freedive mode) and the Icon HD, 0x80/12 for the Icon
\* HD Net, 0x84/12 for the Quad Air and the Smart Air, 0x50/14 for the Smart
\* Apnea, and 0xB8/34 for the Genius.
C9_LayoutTable ==
    Cached =>
        CachedLayout =
            IF model = SMART THEN
                (IF parser.mode = ICONHD_FREEDIVE THEN <<46, 6>> ELSE <<92, 8>>)
            ELSE IF model = ICONHD THEN <<92, 8>>
            ELSE IF model = ICONHDNET THEN <<128, 12>>
            ELSE IF model = QUADAIR \/ model = SMARTAIR THEN <<132, 12>>
            ELSE IF model = SMARTAPNEA THEN <<80, 14>>
            ELSE <<184, 34>>

\* C9 witness: a cached Smart Air dive in freedive mode.
C9_Witness ==
    /\ model = SMARTAIR
    /\ Cached
    /\ parser.mode = ICONHD_FREEDIVE
    /\ CachedLayout = <<132, 12>>

\* C9 as stated: the Smart Air has the layout of the Smart.
C9_SpecTable ==
    Cached =>
        CachedLayout =
            IF model = SMART \/ model = SMARTAIR THEN
                (IF parser.mode = ICONHD_FREEDIVE THEN <<46, 6>> ELSE <<92, 8>>)
            ELSE IF model = ICONHD THEN <<92, 8>>
            ELSE IF model = ICONHDNET THEN <<128, 12>>
            ELSE IF model = QUADAIR THEN <<132, 12>>
            ELSE IF model = SMARTAPNEA THEN <<80, 14>>
            ELSE <<184, 34>>

\* The present buffer with every byte after the stored length set to fill.
Twin(fill) ==
    [len |-> base_data.len,
     b |-> [i \in 0..(base_data.len - 1) |->
              IF i < Nat32(StoredLength) THEN base_data.b[i] ELSE fill]]

\* C10: on the standard path a cached dive has the stored length as the size
\* of its buffer, and the bytes after the stored length are ignored: the call
\* returns the same status, value and events on a buffer that differs only
\* in those bytes.
C10_TrailingBytesIgnored ==
    (IsCall(lastop) /\ model # GENIUS /\ Cached) =>
        /\ U32(base_size) = StoredLength
        /\ \A fill \in {0, 255} :
              \E oob \in OobBytes : \E r \in {FreshCall(Twin(fill), oob)} :
                  status = r.rc /\ out_value = r.value /\ out_events = r.events


\* A record is valid: it has 10 bytes or more, its first and its last four
\* bytes are the type, and the 16 bits stored at size - 6 are the CRC of the
\* bytes from 4 up to size - 6.
RecordOk(mv, r) ==
    /\ r[2] >= 10
    /\ array_uint32_be(mv, r[1]) = U32(r[3])
    /\ array_uint32_be(mv, r[1] + r[2] - 4) = U32(r[3])
    /\ array_uint16_le(mv, r[1] + r[2] - 6) = checksum_crc16_ccitt(mv, r[1] + 4, r[2] - 10, 0)

\* The framed records of the cached Genius dive.
CachedRecords == GeniusRecords(parser.nsamples)

\* C11: mares_genius_isvalid accepts a record exactly when it has 10 bytes or
\* more, both its tags are the expected type and its stored checksum is the
\* CRC-16/CCITT of the bytes between them; a walk of a Genius dive succeeds
\* only if every DSTR, TISS, DPRS, AIRS and DEND record is valid, and a change
\* of one byte under the checksum of a valid record makes the record invalid.
C11_CorruptionRejected ==
    (lastop = "samples_foreach" /\ model = GENIUS /\ Cached) =>
        /\ \A r \in CachedRecords :
              /\ mares_genius_isvalid(Mem, r[1], r[2], r[3]) = RecordOk(Mem, r)
              /\ ~mares_genius_isvalid(Mem, r[1], 9, r[3])
        /\ status = "SUCCESS" =>
              \A r \in CachedRecords :
                  /\ RecordOk(Mem, r)
                  /\ \A k \in CoveredBytes(r), delta \in {1, 128, 255} :
                        ~mares_genius_isvalid(View(CorruptAt(base_data, k, delta), 0),
                                              r[1], r[2], r[3])
        /\ (\E r \in CachedRecords : ~RecordOk(Mem, r)) => status = "DATAFORMAT"

\* C11 witness: a walk has failed on a dive whose only flaw is a byte changed
\* under the checksum of the last sample record.
C11_Witness ==
    /\ lastop = "samples_foreach"
    /\ model = GENIUS
    /\ Cached
    /\ parser.nsamples = MaxSamples
    /\ status = "DATAFORMAT"
    /\ \E r \in CachedRecords :
          /\ r[1] = RecordAt(parser.nsamples - 1)
          /\ ~RecordOk(Mem, r)
          /\ RecordOk(View(CorruptAt(base_data, r[1] + r[2] - 7, 128), 0), r)
          /\ \A q \in CachedRecords \ {r} : RecordOk(Mem, q)


\* The events of one type of the last walk, in order.
EventsOf(type) == SelectSeq(out_events, LAMBDA e : e.type = type)

\* The first sample record whose gas mix index is not below the cached count.
FirstOver == CHOOSE i \in IndexOver : \A j \in IndexOver : i <= j

\* C12: a walk that fails on a record whose gas mix index is out of range has
\* delivered no event of that record, only those of the records before it.
C12_NoPartialEmission ==
    (lastop = "samples_foreach" /\ Cached /\ PerInterval
     /\ parser.ngasmixes > 0 /\ IndexOver # {}) =>
        /\ status = "DATAFORMAT"
        /\ \A type \in {"TIME", "DEPTH", "TEMPERATURE"} : Len(EventsOf(type)) <= FirstOver


\* The sample record (from 0) that event k of the last walk belongs to: the
\* events of a record start with its Time event.
RecordOfEvent(k) ==
    Cardinality({j \in 1..k : out_events[j].type = "TIME"}) - 1

\* The positions of the gas mix events of the last walk.
GasmixAt == {k \in 1..Len(out_events) : out_events[k].type = "GASMIX"}

\* The sample records of the last walk that passed the check of their gas
\* mix index.
Passed ==
    IF status = "SUCCESS" THEN parser.nsamples
    ELSE IF parser.ngasmixes > 0 /\ IndexOver # {} /\ Len(TimeEvents) = FirstOver + 1
    THEN FirstOver
    ELSE Len(TimeEvents)

\* The index of the last gas mix event before record i, or none.
LastEmitted(i) ==
    LET before == {k \in GasmixAt : RecordOfEvent(k) < i}
    IN  IF before = {} THEN GASMIX_NONE
        ELSE out_events[CHOOSE k \in before : \A j \in before : j <= k].gasmix

\* C13: in a walk over per-interval records with a cached gas mix count above
\* zero, a record has a gas mix event, with its own index, exactly when its
\* index differs from that of the last gas mix event; the first record always
\* has one, and no two successive gas mix events have the same index.
C13_GasmixOnChange ==
    (lastop = "samples_foreach" /\ Cached /\ PerInterval /\ parser.ngasmixes > 0) =>
        /\ \A i \in 0..(Passed - 1) :
              LET mine == {k \in GasmixAt : RecordOfEvent(k) = i}
              IN  /\ Cardinality(mine) <= 1
                  /\ mine # {} <=> GasIndexAt(i) # LastEmitted(i)
                  /\ \A k \in mine : out_events[k].gasmix = GasIndexAt(i)
        /\ \A k \in GasmixAt : RecordOfEvent(k) < Passed
        /\ Passed > 0 => \E k \in GasmixAt : RecordOfEvent(k) = 0
        /\ \A i \in 1..(Len(EventsOf("GASMIX")) - 1) :
              EventsOf("GASMIX")[i].gasmix # EventsOf("GASMIX")[i + 1].gasmix

\* C13 witness: a walk has gone from gas mix 0 to gas mix 1, stayed there, and
\* gone back.
C13_Witness ==
    /\ lastop = "samples_foreach"
    /\ Cached
    /\ PerInterval
    /\ status = "SUCCESS"
    /\ parser.ngasmixes = 2
    /\ parser.nsamples >= 4
    /\ GasIndexAt(1) = 1
    /\ GasIndexAt(2) = 1
    /\ GasIndexAt(3) = 0
    /\ EventsOf("GASMIX") = <<GasmixEv(0), GasmixEv(1), GasmixEv(0)>>


\* The offset of the fields of a record or sub-record behind its type tag.
Marker == IF model = GENIUS THEN 4 ELSE 0

\* The sample records followed by a tank pressure sub-record: those that
\* make the number of samples a multiple of 4, on the air-integrated models.
PressureRecords ==
    IF model \in {ICONHDNET, QUADAIR, SMARTAIR, GENIUS}
    THEN {i \in 0..(parser.nsamples - 1) : (i + 1) % 4 = 0}
    ELSE {}

\* The offset of the sample record i as the sub-records before it place it.
PlacedAt(i) ==
    (IF model = GENIUS THEN GeniusHeaderSize + 4 + DSTR_SIZE + TISS_SIZE ELSE 4)
    + i * parser.samplesize
    + Cardinality({j \in PressureRecords : j < i}) * (IF model = GENIUS THEN AIRS_SIZE ELSE 8)

\* The positions of the tank pressure events of the last walk.
PressureAt == {k \in 1..Len(out_events) : out_events[k].type = "PRESSURE"}

\* C14: in a walk over per-interval records a tank pressure sub-record (8
\* bytes, a valid 16-byte AIRS record on the Genius) is read right after the
\* sample record that makes the number of samples a multiple of 4, on the
\* air-integrated models only; it gives a tank pressure event for tank g, the
\* gas mix index of the record, exactly when g is below the cached tank
\* count, and is dropped otherwise without failing the walk.
C14_TankPressureEveryFourth ==
    (lastop = "samples_foreach" /\ Cached /\ PerInterval) =>
        /\ \A k \in PressureAt :
              LET i == RecordOfEvent(k)
              IN  /\ i \in PressureRecords
                  /\ GasIndexAt(i) < parser.ntanks
                  /\ out_events[k] =
                        PressureEv(GasIndexAt(i),
                                   array_uint16_le(Mem, PlacedAt(i) + parser.samplesize + Marker))
                  /\ model = GENIUS =>
                        mares_genius_isvalid(Mem, PlacedAt(i) + DPRS_SIZE, AIRS_SIZE, AIRS_TYPE)
        /\ status = "SUCCESS" =>
              /\ \A i \in PressureRecords :
                    /\ Cardinality({k \in PressureAt : RecordOfEvent(k) = i})
                          = IF GasIndexAt(i) < parser.ntanks THEN 1 ELSE 0
                    /\ model = GENIUS =>
                          mares_genius_isvalid(Mem, PlacedAt(i) + DPRS_SIZE, AIRS_SIZE, AIRS_TYPE)
              /\ DepthEvents = [i \in 1..parser.nsamples |->
                                  DepthEv(array_uint16_le(Mem, PlacedAt(i - 1) + Marker))]
              /\ model = GENIUS =>
                    mares_genius_isvalid(Mem, PlacedAt(parser.nsamples), DEND_SIZE, DEND_TYPE)
        /\ (WellFramed /\ (parser.ngasmixes > 0 => IndexOver = {})) => status = "SUCCESS"

\* C14 witness: a walk of more than four samples on an air-integrated model of the
\* standard path, with one tank, has dropped the pressure that follows the
\* fourth sample, whose gas mix index is 1, and read the fifth sample behind it.
C14_Witness ==
    /\ lastop = "samples_foreach"
    /\ model \in {ICONHDNET, QUADAIR, SMARTAIR}
    /\ Cached
    /\ PerInterval
    /\ status = "SUCCESS"
    /\ parser.nsamples > 4
    /\ parser.ntanks = 1
    /\ GasIndexAt(3) = 1
    /\ PressureAt = {}
    /\ array_uint16_le(Mem, PlacedAt(3) + parser.samplesize) # 0
    /\ Len(DepthEvents) = parser.nsamples

\* C14 second case: the pressure after the fourth sample is reported for tank 1.
C14_WitnessEmitted ==
    /\ lastop = "samples_foreach"
    /\ model = GENIUS
    /\ status = "SUCCESS"
    /\ parser.nsamples > 4
    /\ parser.ntanks = 2
    /\ GasIndexAt(3) = 1
    /\ Cardinality(PressureAt) = 1


\* C15: on the standard path the cached settings are the 16 bits at offset
\* 0x1C of the header fields on the Smart Apnea, at offset 0x08 when the mode
\* read from this buffer is freedive, and at offset 0x0C otherwise; the cached
\* interval is entry (settings >> 10) & 3 of 1, 5, 10, 20 seconds.
C15_SettingsOffset ==
    (Cached /\ model # GENIUS) =>
        LET offset == IF model = SMARTAPNEA THEN 28
                      ELSE IF parser.mode = ICONHD_FREEDIVE THEN 8
                      ELSE 12
            settings == array_uint16_le(Mem, CachedHeader + offset)
        IN  /\ parser.settings = U32(settings)
            /\ model # SMARTAPNEA =>
                  parser.interval = Intervals[((settings \div 1024) % 4) + 1]


\* Where the sample loop of a walk over the present buffer stops.
LoopEnd ==
    WalkLoop(model, parser, Mem, IF model = GENIUS THEN parser.headersize ELSE 0,
             [offset |-> IF model = GENIUS THEN 4 + DSTR_SIZE + TISS_SIZE ELSE 4,
              time |-> 0, nsamples |-> 0, previous |-> GASMIX_NONE, events |-> <<>>])

\* The end of the bytes a walk over the present buffer reads: every read of
\* the loop is below the offset the loop has reached when it succeeds, and in
\* the record at that offset when it fails; the Genius then reads the footer.
ReadEnd ==
    LET base == IF model = GENIUS THEN parser.headersize ELSE 0
    IN  IF LoopEnd.rc = "SUCCESS"
        THEN base + LoopEnd.st.offset + (IF model = GENIUS THEN DEND_SIZE ELSE 0)
        ELSE base + LoopEnd.st.offset + parser.samplesize

\* C16: every byte a walk reads lies inside the validated extent of the dive,
\* the stored length on the standard path and the buffer size on the Genius.
C16_WalkInBounds ==
    (lastop = "samples_foreach" /\ Cached) =>
        /\ base_size <= base_data.len
        /\ ReadEnd <= base_size


\* C17: a successful walk of a variant sampled per interval delivers one Time
\* event per sample, the last of them at sample count times interval, which is
\* the dive time get_field reports (0 when there are no samples).
C17_DiveTimeIsLastTime ==
    (lastop = "samples_foreach" /\ status = "SUCCESS" /\ PerInterval) =>
        LET divetime == mares_iconhd_parser_get_field(model, parser, Mem, base_size, "DIVETIME", 0)
        IN  /\ Len(TimeEvents) = parser.nsamples
            /\ \A i \in 1..Len(TimeEvents) : TimeEvents[i].time = i * parser.interval
            /\ divetime.rc = "SUCCESS"
            /\ divetime.value = UInt(parser.nsamples * parser.interval)
            /\ divetime.value.v =
                   (IF parser.nsamples = 0 THEN 0 ELSE TimeEvents[Len(TimeEvents)].time)

C17_Witness ==
    /\ lastop = "samples_foreach"
    /\ status = "SUCCESS"
    /\ PerInterval
    /\ model # GENIUS
    /\ parser.nsamples >= 2
    /\ parser.interval > 1
    /\ Len(TimeEvents) = parser.nsamples
    /\ TimeEvents[Len(TimeEvents)].time = parser.nsamples * parser.interval
    /\ array_uint16_le(Mem, CachedHeader + 36) # parser.nsamples * parser.interval

=============================================================================
